---- MODULE Spec2Model ----
(***************************************************************************)
(* SecureShare: consent-gated disclosure of customer data to partners.     *)
(* State machine of the bank backend: the Partner and Consent collections, *)
(* the Customer, DataRequest and AuditLog collections and the wall clock.  *)
(* Each HTTP handler (route middleware included) is an operator from the   *)
(* stored state and the request to the response and the state it leaves;   *)
(* one action per handler applies it.                                      *)
(***************************************************************************)
EXTENDS Integers, Sequences, FiniteSets, TLC

\* ------------------------------------------------------------------ bounds
MaxConsents == 1
MaxContracts == 2
MaxTicks == 1
MaxLogs == 3
MaxLen == 2

\* --------------------------------------------------------------- constants
\* server.js: process.env.MIN_CONSENT_DURATION_MS = 60 * 60 * 1000
MIN_CONSENT_DURATION_MS == 60 * 60 * 1000
\* Date.setDate(getDate() + n) moves a date by n days
MsPerDay == 24 * 60 * 60 * 1000

Absent == "absent"                  \* a string body field that was not sent (undefined)
None == [given |-> FALSE]           \* a non-string body field that was not sent
Some(v) == [given |-> TRUE, v |-> v]
NoPartner == [exists |-> FALSE]     \* Partner.findOne(...) === null
NoContract == [present |-> FALSE]   \* partner.contractData = null

PartnerIds == {"p1", "p2"}
CustomerIds == {"c1"}
\* req.user as set by protect: User.role is 'admin' or 'customer'
Admin == [role |-> "admin", customerId |-> Absent]
Users == {Admin,
          [role |-> "customer", customerId |-> "c1"],
          [role |-> "customer", customerId |-> "c2"]}

ConsentStatus == {"active", "revoked", "expired", "pending"}

\* requestedContract bodies an admin submits (complete ones)
Contracts ==
  { [allowedDataFields |-> {"phone", "email"}, purpose |-> "kyc", retentionPeriod |-> 14,
     legalBasis |-> "legal obligation", contractText |-> "kyc terms"],
    [allowedDataFields |-> {"phone"}, purpose |-> "marketing", retentionPeriod |-> 7,
     legalBasis |-> "consent", contractText |-> "marketing terms"] }

VARIABLES now, ticks, customers, partners, consents, nextContractId, dataRequests,
          auditLogs, issued, verdict, tampered, crypto, flight

vars == <<now, ticks, customers, partners, consents, nextContractId, dataRequests,
          auditLogs, issued, verdict, tampered, crypto, flight>>

auditVars == <<auditLogs, issued, verdict>>

\* what lies beside the stored collections: a write to the AuditLog collection
\* that bypasses the service (tampered), a value on its way through the
\* encryption services (crypto), a disclosure on its way to the partner (flight)
sideVars == <<tampered, crypto, flight>>

\* What a handler answers and does: HTTP status, message, the operations it
\* performed in order (steps), the audit events it logged through
\* auditService.logEvent, whether it pushed a notification to the partner.
Response(code, message, steps, audit, notified) ==
  [code |-> code, message |-> message, steps |-> steps, audit |-> audit,
   notified |-> notified]

\* fault: every approval stamps the same contractId
ApprovedContractDataFixedId(requested, contractId) ==
  [present |-> TRUE, allowedDataFields |-> requested.allowedDataFields,
   purpose |-> requested.purpose, retentionPeriod |-> requested.retentionPeriod,
   legalBasis |-> requested.legalBasis, contractText |-> requested.contractText,
   contractId |-> 0, version |-> 1]

\* contractData as approvePartnerContract builds it from requestedContract
ApprovedContractData(requested, contractId) ==
  [present |-> TRUE, allowedDataFields |-> requested.allowedDataFields,
   purpose |-> requested.purpose, retentionPeriod |-> requested.retentionPeriod,
   legalBasis |-> requested.legalBasis, contractText |-> requested.contractText,
   contractId |-> contractId, version |-> 1]

\* Partner p2 was registered and approved earlier (contract 0, no public key, no
\* callback URL) and is not managed further; p1 is not registered yet.
EarlierPartner ==
  [exists |-> TRUE, status |-> "active",
   requestedContract |->
     [allowedDataFields |-> {"phone"}, purpose |-> "marketing", retentionPeriod |-> 7,
      legalBasis |-> "consent", contractText |-> "marketing terms"],
   approvedContract |-> TRUE,
   contractData |->
     ApprovedContractData([allowedDataFields |-> {"phone"}, purpose |-> "marketing",
                           retentionPeriod |-> 7, legalBasis |-> "consent",
                           contractText |-> "marketing terms"], 0),
   contractApprovedAt |-> Some(0), contractApprovedBy |-> Some(Admin),
   publicKey |-> FALSE, callbackUrl |-> FALSE]

\* the AuditLog collection has not been written behind the service's back
NoTamper == [done |-> FALSE, position |-> 0, member |-> "", value |-> 0]

\* nothing is being encrypted or decrypted
NoCrypto == [stage |-> "none"]

\* no data request has been received
NoFlight == [push |-> "none", responded |-> FALSE, code |-> 0]

\* no integrity check has run yet
NoVerdict ==
  [ran |-> FALSE, startId |-> 0, endId |-> 0, appended |-> 0, valid |-> TRUE,
   message |-> "", examined |-> 0]

Init ==
  /\ now = 0
  /\ ticks = 0
  /\ customers = CustomerIds
  /\ partners = [p \in PartnerIds |-> IF p = "p2" THEN EarlierPartner ELSE NoPartner]
  /\ consents = <<>>
  /\ nextContractId = 1
  /\ dataRequests = {}
  /\ auditLogs = <<>>
  /\ issued = <<>>
  /\ verdict = NoVerdict
  /\ tampered = NoTamper
  /\ crypto = NoCrypto
  /\ flight = NoFlight

\* Time passes between requests.
TickSteps == {MIN_CONSENT_DURATION_MS + 1}

Tick ==
  /\ ticks < MaxTicks
  /\ \E d \in TickSteps : now' = now + d
  /\ ticks' = ticks + 1
  /\ UNCHANGED <<customers, partners, consents, nextContractId, dataRequests, auditVars, sideVars>>

\* ------------------------------------------------ partner management
\* a requestedContract with one of its required members missing
Incomplete ==
  [allowedDataFields |-> {"phone"}, purpose |-> "", retentionPeriod |-> 14,
   legalBasis |-> "consent", contractText |-> "marketing terms"]
\* requestedContract and its purpose, retentionPeriod, legalBasis and
\* contractText are truthy (allowedDataFields is an array, truthy even if empty)
complete(rc) ==
  /\ rc.given
  /\ rc.v.purpose # ""
  /\ rc.v.retentionPeriod # 0
  /\ rc.v.legalBasis # ""
  /\ rc.v.contractText # ""

\* restrictTo(...roles) in front of a route
restrictTo(user, role) == user.role = role

Partner_findOne(pid) == IF pid \in DOMAIN partners THEN partners[pid] ELSE NoPartner

\* Partner.create({... status: 'pending', requestedContract, approvedContract: false})
NewPartner(requestedContract, publicKey, callbackUrl) ==
  [exists |-> TRUE, status |-> "pending", requestedContract |-> requestedContract,
   approvedContract |-> FALSE, contractData |-> NoContract,
   contractApprovedAt |-> None, contractApprovedBy |-> None,
   publicKey |-> publicKey, callbackUrl |-> callbackUrl]

\* POST /partners/register (protect): registerPartner; pid is the generated id
registerPartner(user, pid, requestedContract, publicKey, callbackUrl) ==
  IF ~complete(requestedContract)
    THEN Response(400, "Complete contract details are required", <<>>, <<>>, FALSE)
         @@ [partners |-> partners]
    ELSE Response(201, "success", <<"Partner.create">>, <<"partner_registered">>,
                  callbackUrl)
         @@ [partners |-> [partners EXCEPT ![pid] =
                             NewPartner(requestedContract.v, publicKey, callbackUrl)]]

\* fault: a replaced requestedContract leaves the earlier approval in place
updatePartnerKeepsApproval(user, pid, status, requestedContract) ==
  LET p0 == Partner_findOne(pid)
      p1 == IF status = Absent THEN p0 ELSE [p0 EXCEPT !.status = status]
      p2 == IF ~requestedContract.given THEN p1
            ELSE [p1 EXCEPT !.requestedContract = requestedContract.v]
  IN
  IF ~p0.exists
    THEN Response(404, "No partner found with that ID", <<>>, <<>>, FALSE)
         @@ [partners |-> partners]
  ELSE IF requestedContract.given /\ ~complete(requestedContract)
    THEN Response(400, "Complete contract details are required for update",
                  <<>>, <<>>, FALSE)
         @@ [partners |-> partners]
  ELSE Response(200,
                IF requestedContract.given
                  THEN "Partner updated. New contract pending approval."
                  ELSE "Partner updated successfully.",
                <<"partner.save">>, <<"partner_updated">>,
                requestedContract.given /\ p2.callbackUrl)
       @@ [partners |-> [partners EXCEPT ![pid] = p2]]

\* PUT /partners/:partnerId (protect): updatePartner
updatePartner(user, pid, status, requestedContract) ==
  LET p0 == Partner_findOne(pid)
      p1 == IF status = Absent THEN p0 ELSE [p0 EXCEPT !.status = status]
      p2 == IF ~requestedContract.given THEN p1
            ELSE [p1 EXCEPT !.requestedContract = requestedContract.v,
                            !.approvedContract = FALSE,
                            !.contractData = NoContract,
                            !.contractApprovedAt = None,
                            !.contractApprovedBy = None]
  IN
  IF ~p0.exists
    THEN Response(404, "No partner found with that ID", <<>>, <<>>, FALSE)
         @@ [partners |-> partners]
  ELSE IF requestedContract.given /\ ~complete(requestedContract)
    THEN Response(400, "Complete contract details are required for update",
                  <<>>, <<>>, FALSE)
         @@ [partners |-> partners]
  ELSE Response(200,
                IF requestedContract.given
                  THEN "Partner updated. New contract pending approval."
                  ELSE "Partner updated successfully.",
                <<"partner.save">>, <<"partner_updated">>,
                requestedContract.given /\ p2.callbackUrl)
       @@ [partners |-> [partners EXCEPT ![pid] = p2]]

\* POST /partners/:partnerId/contract/approve (protect, restrictTo('admin')):
\* approvePartnerContract; uuidv4() is the next unused contract id
approvePartnerContract(user, pid, approve) ==
  LET p0 == Partner_findOne(pid)
      contractId == nextContractId
      approved == [p0 EXCEPT !.approvedContract = TRUE,
                             !.contractData =
                                ApprovedContractData(p0.requestedContract, contractId),
                             !.contractApprovedAt = Some(now),
                             !.contractApprovedBy = Some(user),
                             !.status = IF p0.status = "pending" THEN "active"
                                        ELSE p0.status]
      rejected == [p0 EXCEPT !.approvedContract = FALSE, !.contractData = NoContract,
                             !.contractApprovedAt = None,
                             !.contractApprovedBy = None]
  IN
  IF ~restrictTo(user, "admin")
    THEN Response(403, "You do not have permission to perform this action",
                  <<>>, <<>>, FALSE)
         @@ [partners |-> partners, nextContractId |-> nextContractId]
  ELSE IF ~p0.exists
    THEN Response(404, "No partner found with that ID", <<>>, <<>>, FALSE)
         @@ [partners |-> partners, nextContractId |-> nextContractId]
  \* (a stored partner always holds a requestedContract: registerPartner and
  \* updatePartner refuse an incomplete one, so the 400 branch is never taken)
  ELSE Response(200,
                IF approve THEN "Partner contract approved successfully."
                           ELSE "Partner contract rejected.",
                <<"partner.save">>,
                <<IF approve THEN "partner_contract_approved"
                             ELSE "partner_contract_rejected">>,
                p0.callbackUrl)
       @@ [partners |-> [partners EXCEPT ![pid] = IF approve THEN approved ELSE rejected],
           nextContractId |-> IF approve THEN nextContractId + 1 ELSE nextContractId]

\* POST /partners/:partnerId/keys (protect): updatePartnerKey; publicKey tells
\* whether the body holds a public key
updatePartnerKey(user, pid, publicKey) ==
  IF ~publicKey
    THEN Response(400, "Public key is required", <<>>, <<>>, FALSE)
         @@ [partners |-> partners]
  ELSE IF ~Partner_findOne(pid).exists
    THEN Response(404, "No partner found with that ID", <<>>, <<>>, FALSE)
         @@ [partners |-> partners]
  ELSE Response(200, "success", <<"partner.save">>, <<"partner_key_updated">>, FALSE)
       @@ [partners |-> [partners EXCEPT ![pid].publicKey = TRUE]]

\* ---- requests to the partner-management routes
ManagedPartners == {"p1"}
RegisterContracts == {Some(c) : c \in Contracts \cup {Incomplete}} \cup {None}
UpdateContracts == {Some(c) : c \in Contracts \cup {Incomplete}} \cup {None}
PartnerStatusUpdates == {Absent, "suspended"}
\* what p1 sends at registration: a public key and a callback URL
RegisterKey(pid) == pid = "p1"
RegisterCallback(pid) == pid = "p1"

RegisterPartner ==
  \E user \in Users, pid \in ManagedPartners, rc \in RegisterContracts :
    /\ ~partners[pid].exists
    /\ partners' = registerPartner(user, pid, rc, RegisterKey(pid),
                                   RegisterCallback(pid)).partners
    /\ UNCHANGED <<now, ticks, customers, consents, nextContractId, dataRequests,
                   auditVars, sideVars>>

UpdatePartner ==
  \E user \in Users, pid \in ManagedPartners, st \in PartnerStatusUpdates,
     rc \in UpdateContracts :
    /\ partners' = updatePartner(user, pid, st, rc).partners
    /\ UNCHANGED <<now, ticks, customers, consents, nextContractId, dataRequests,
                   auditVars, sideVars>>

UpdatePartnerKey ==
  \E user \in Users, pid \in ManagedPartners, publicKey \in BOOLEAN :
    /\ partners' = updatePartnerKey(user, pid, publicKey).partners
    /\ UNCHANGED <<now, ticks, customers, consents, nextContractId, dataRequests,
                   auditVars, sideVars>>

\* fault: consents are live-linked, approval rewrites the partner's consents
ApprovePartnerContractLiveLinked ==
  \E user \in Users, pid \in ManagedPartners, approve \in BOOLEAN :
    LET r == approvePartnerContract(user, pid, approve)
        contract == r.partners[pid].contractData
        relinked(c) ==
          IF c.partnerId = pid /\ r.code = 200 /\ contract.present
            THEN [c EXCEPT !.allowedDataFields = contract.allowedDataFields,
                           !.purpose = contract.purpose,
                           !.retentionPeriod = contract.retentionPeriod,
                           !.contractId = contract.contractId]
            ELSE c
    IN
    /\ r.nextContractId <= MaxContracts + 1
    /\ partners' = r.partners
    /\ nextContractId' = r.nextContractId
    /\ consents' = [cid \in DOMAIN consents |-> relinked(consents[cid])]
    /\ UNCHANGED <<now, ticks, customers, dataRequests, auditVars, sideVars>>

ApprovePartnerContract ==
  \E user \in Users, pid \in ManagedPartners, approve \in BOOLEAN :
    LET r == approvePartnerContract(user, pid, approve) IN
    /\ r.nextContractId <= MaxContracts + 1
    /\ partners' = r.partners
    /\ nextContractId' = r.nextContractId
    /\ UNCHANGED <<now, ticks, customers, consents, dataRequests, auditVars, sideVars>>

\* ------------------------------------------------------- consents
\* fault: the query object itself (always truthy) is tested, not its result
Customer_findByIdUnawaited(cid) == TRUE

Customer_findById(cid) == cid \in customers
\* Consent.findOne({ consentId }): consent ids are positions in the collection
Consent_exists(cid) == cid \in DOMAIN consents

\* fault: any customer passes the ownership test
hasPermissionAnyCustomer(user, consent) ==
  user.role = "admin" \/ user.role = "customer"

\* the ownership test shared by getConsent, updateConsent and revokeConsent
hasPermission(user, consent) ==
  user.role = "admin" \/ (user.role = "customer" /\ user.customerId = consent.customerId)

\* a partner is notified when it has a callback URL and is active
shouldNotify(pid) ==
  LET p == Partner_findOne(pid) IN p.exists /\ p.callbackUrl /\ p.status = "active"

\* the document Consent.create stores (status defaults to 'active',
\* createdAt defaults to Date.now)
NewConsent(customerId, partnerId, contractData, consentDuration) ==
  [customerId |-> customerId, partnerId |-> partnerId,
   allowedDataFields |-> contractData.allowedDataFields,
   purpose |-> contractData.purpose,
   retentionPeriod |-> contractData.retentionPeriod,
   contractId |-> contractData.contractId,
   status |-> "active", createdAt |-> now,
   expiresAt |-> now + consentDuration, consentDuration |-> consentDuration]

\* consentDuration < parseInt(process.env.MIN_CONSENT_DURATION_MS)
belowMinDuration(consentDuration) == consentDuration < MIN_CONSENT_DURATION_MS

\* consentSchema validators run by Consent.create and by findOneAndUpdate with
\* runValidators: the consentDuration floor and the status enum
consentSchemaValid(consent) ==
  /\ consent.consentDuration >= MIN_CONSENT_DURATION_MS
  /\ consent.status \in ConsentStatus

\* !partner.approvedContract || !partner.contractData
lacksApprovedContract(partner) ==
  ~partner.approvedContract \/ ~partner.contractData.present

\* POST /consents (protect): createConsent
createConsent(user, customerId, partnerId, consentDuration) ==
  LET partner == Partner_findOne(partnerId)
      created == NewConsent(customerId, partnerId, partner.contractData,
                            consentDuration.v)
      fail(code, message) ==
        Response(code, message, <<>>, <<>>, FALSE) @@ [consents |-> consents]
  IN
  IF ~consentDuration.given \/ consentDuration.v = 0
    THEN fail(400, "Consent duration is required")
  ELSE IF belowMinDuration(consentDuration.v)
    THEN fail(400, "Consent duration must be at least 1 hour(s)")
  ELSE IF ~Customer_findById(customerId)
    THEN fail(404, "No customer found with that ID")
  ELSE IF ~partner.exists
    THEN fail(404, "No partner found with that ID")
  ELSE IF lacksApprovedContract(partner)
    THEN fail(403, "This partner does not have an approved contract yet")
  ELSE IF ~consentSchemaValid(created)
    THEN fail(500, "Consent validation failed")
  ELSE Response(201, "success", <<"Consent.create">>, <<"consent_created">>,
                partner.callbackUrl /\ partner.status = "active")
       @@ [consents |-> Append(consents, created)]

\* fault: a new duration is counted from createdAt, a new retention period
\* leaves expiresAt alone
updateDataFromCreation(c, body) ==
  LET c1 == IF body.allowedDataFields.given
              THEN [c EXCEPT !.allowedDataFields = body.allowedDataFields.v] ELSE c
      c2 == IF body.purpose # Absent THEN [c1 EXCEPT !.purpose = body.purpose] ELSE c1
      c3 == IF body.status # Absent THEN [c2 EXCEPT !.status = body.status] ELSE c2
      c4 == IF body.consentDuration.given /\ body.consentDuration.v # 0
              THEN [c3 EXCEPT !.consentDuration = body.consentDuration.v,
                              !.expiresAt = c.createdAt + body.consentDuration.v]
              ELSE c3
      c5 == IF body.retentionPeriod.given /\ body.retentionPeriod.v # 0
              THEN [c4 EXCEPT !.retentionPeriod = body.retentionPeriod.v]
              ELSE c4
  IN c5

\* The consent findOneAndUpdate leaves, from stored consent c and req.body:
\* only the members that were sent, and truthy, are written.
updateData(c, body) ==
  LET c1 == IF body.allowedDataFields.given
              THEN [c EXCEPT !.allowedDataFields = body.allowedDataFields.v] ELSE c
      c2 == IF body.purpose # Absent THEN [c1 EXCEPT !.purpose = body.purpose] ELSE c1
      c3 == IF body.status # Absent THEN [c2 EXCEPT !.status = body.status] ELSE c2
      c4 == IF body.consentDuration.given /\ body.consentDuration.v # 0
              THEN [c3 EXCEPT !.consentDuration = body.consentDuration.v,
                              !.expiresAt = now + body.consentDuration.v]
              ELSE c3
      c5 == IF body.retentionPeriod.given /\ body.retentionPeriod.v # 0
              THEN [c4 EXCEPT !.retentionPeriod = body.retentionPeriod.v,
                              !.expiresAt = c.createdAt + body.retentionPeriod.v * MsPerDay]
              ELSE c4
  IN c5

\* PUT /consents/:consentId (protect): updateConsent
updateConsent(user, cid, body) ==
  LET fail(code, message) ==
        Response(code, message, <<>>, <<>>, FALSE) @@ [consents |-> consents]
      updated == updateData(consents[cid], body)
  IN
  IF /\ body.consentDuration.given /\ body.consentDuration.v # 0
     /\ belowMinDuration(body.consentDuration.v)
    THEN fail(400, "Consent duration must be at least 1 hour(s)")
  ELSE IF ~Consent_exists(cid)
    THEN fail(404, "No consent found with that ID")
  ELSE IF ~consentSchemaValid(updated)
    THEN fail(500, "Validation failed")
  ELSE IF ~hasPermission(user, updated)              \* checked after the update
    THEN Response(403, "You do not have permission to update this consent",
                  <<"Consent.findOneAndUpdate">>, <<>>, FALSE)
         @@ [consents |-> [consents EXCEPT ![cid] = updated]]
  ELSE Response(200, "success", <<"Consent.findOneAndUpdate">>, <<"consent_updated">>,
                shouldNotify(updated.partnerId))
       @@ [consents |-> [consents EXCEPT ![cid] = updated]]

\* POST /consents/:consentId/revoke (protect): revokeConsent
revokeConsent(user, cid) ==
  LET fail(code, message) ==
        Response(code, message, <<>>, <<>>, FALSE) @@ [consents |-> consents]
  IN
  IF ~Consent_exists(cid)
    THEN fail(404, "No consent found with that ID")
  ELSE IF ~hasPermission(user, consents[cid])
    THEN fail(403, "You do not have permission to revoke this consent")
  ELSE Response(200, "success", <<"consent.save">>, <<"consent_revoked">>,
                shouldNotify(consents[cid].partnerId))
       @@ [consents |-> [consents EXCEPT ![cid].status = "revoked"]]

\* DELETE /customers/:customerId (protect, restrictTo('admin')): deleteCustomer
deleteCustomer(user, customerId) ==
  IF ~restrictTo(user, "admin")
    THEN Response(403, "You do not have permission to perform this action",
                  <<>>, <<>>, FALSE)
         @@ [customers |-> customers]
  ELSE IF ~Customer_findById(customerId)
    THEN Response(404, "No customer found with that ID", <<>>, <<>>, FALSE)
         @@ [customers |-> customers]
  ELSE Response(204, "success", <<"Customer.findByIdAndDelete">>,
                <<"customer_deleted">>, FALSE)
       @@ [customers |-> customers \ {customerId}]

\* ------------------------------------------------------ disclosure
\* fault: only the first requested field is compared with the consent
invalidFieldsFirstOnly(requestedFields, consent) ==
  SelectSeq(SubSeq(requestedFields, 1, 1),
            LAMBDA field : field \notin consent.allowedDataFields)

\* requestedFields.filter(field => !consent.allowedDataFields.includes(field))
invalidFields(requestedFields, consent) ==
  SelectSeq(requestedFields, LAMBDA field : field \notin consent.allowedDataFields)

\* fault: a consent counts as expired at the very instant of expiresAt
isExpiredAtInstant(consent) == now >= consent.expiresAt

\* new Date() > new Date(consent.expiresAt)
isExpired(consent) == now > consent.expiresAt

\* Consent.findOne({ consentId, partnerId, status: 'active' }) finds a consent
Consent_findActive(consentId, partnerId) ==
  /\ consentId \in DOMAIN consents
  /\ consents[consentId].partnerId = partnerId
  /\ consents[consentId].status = "active"

\* fault: only the partner's status is looked at
partnerNotAuthorizedStatusOnly(partner) == partner.status # "active"

\* req.partner.status !== 'active' || !req.partner.approvedContract
\*   || !req.partner.contractData
partnerNotAuthorized(partner) ==
  partner.status # "active" \/ ~partner.approvedContract \/ ~partner.contractData.present

\* POST /partners/data-request (partnerProtect): partnerDataRequest.
\* tokenOk: the bearer token hashes to the partner's apiTokenHash;
\* signature: "none", "valid" or "invalid" against the partner's public key.
partnerDataRequest(partnerId, tokenOk, consentId, requestedFields, signature) ==
  LET partner == Partner_findOne(partnerId)
      consent == consents[consentId]
      verified == partner.publicKey /\ signature # "none"
      lookup == <<"Consent.findOne">>
      checked == IF verified THEN lookup \o <<"verifySignature">> ELSE lookup
      fail(code, message, steps) ==
        Response(code, message, steps, <<>>, FALSE)
        @@ [invalidFields |-> <<>>, consents |-> consents, dataRequests |-> dataRequests]
  IN
  IF ~partner.exists
    THEN fail(401, "Invalid partner ID", <<>>)
  ELSE IF ~tokenOk
    THEN fail(401, "Invalid partner token", <<>>)
  ELSE IF partnerNotAuthorized(partner)
    THEN fail(403, "Partner is not active or does not have an approved contract", <<>>)
  ELSE IF ~Consent_findActive(consentId, partnerId)
    THEN fail(404, "No active consent found", lookup)
  ELSE IF isExpired(consent)
    THEN [fail(403, "Consent expired", lookup \o <<"consent.save">>)
            EXCEPT !.consents = [consents EXCEPT ![consentId].status = "expired"]]
  ELSE IF Len(invalidFields(requestedFields, consent)) > 0
    THEN [fail(403, "Fields not allowed", lookup)
            EXCEPT !.invalidFields = invalidFields(requestedFields, consent)]
  ELSE IF verified /\ signature = "invalid"
    THEN fail(400, "Invalid signature", checked)
  ELSE IF ~Customer_findById(consent.customerId)
    THEN fail(404, "Customer not found", checked \o <<"Customer.findById">>)
  ELSE Response(200, "success",
                checked \o <<"Customer.findById", "DataRequest.create", "logEvent",
                             "decryptField">>
                        \o (IF partner.publicKey THEN <<"encrypt">> ELSE <<>>)
                        \o (IF partner.callbackUrl THEN <<"push">> ELSE <<>>)
                        \o <<"respond">>,
                <<"data_request">>, partner.callbackUrl)
       @@ [invalidFields |-> <<>>, consents |-> consents,
           dataRequests |-> dataRequests \cup
              {[consentId |-> consentId, partnerId |-> partnerId,
                requestedFields |-> requestedFields]}]

\* What a handler answers when its awaited auditService.logEvent call rejects.
\* The call stands unguarded in the handler's try block, after the primary
\* write: the catch block hands the error to next(error) and errorHandler
\* answers 500. What was stored before the call stays stored; the steps after
\* it (notification, success response) are not taken. A handler that logs
\* nothing on this path is not affected.
auditFailure(r) ==
  LET at == {i \in DOMAIN r.steps : r.steps[i] = "logEvent"} IN
  IF r.audit = <<>>
    THEN r
    ELSE [r EXCEPT !.code = 500,
                   !.message = "audit log failure",
                   !.steps = IF at = {} THEN r.steps
                             ELSE SubSeq(r.steps, 1, CHOOSE i \in at : TRUE),
                   !.audit = <<>>,
                   !.notified = FALSE]

\* ---- requests to the consent and customer routes
CreateDurations ==
  {None, Some(0), Some(MIN_CONSENT_DURATION_MS - 1), Some(MIN_CONSENT_DURATION_MS),
   Some(MIN_CONSENT_DURATION_MS + 1)}
NoUpdate ==
  [allowedDataFields |-> None, purpose |-> Absent, status |-> Absent,
   consentDuration |-> None, retentionPeriod |-> None]
UpdateBodies ==
  {[NoUpdate EXCEPT !.status = st] : st \in {"active", "pending", "archived"}}
  \cup {[NoUpdate EXCEPT !.consentDuration = d] :
          d \in {Some(0), Some(MIN_CONSENT_DURATION_MS - 1), Some(MIN_CONSENT_DURATION_MS)}}
  \cup {[NoUpdate EXCEPT !.retentionPeriod = Some(1)],
        [NoUpdate EXCEPT !.retentionPeriod = Some(1),
                         !.consentDuration = Some(MIN_CONSENT_DURATION_MS + 1)],
        [NoUpdate EXCEPT !.allowedDataFields = Some({"phone", "ssn"}),
                         !.purpose = "research"]}
ConsentIdInputs == 1 .. MaxConsents
CustomerIdInputs == CustomerIds \cup {"c0"}
PartnerIdInputs == PartnerIds \cup {"p0"}

RequestedFieldLists == {<<"phone", "email">>, <<"phone", "ssn">>}
Signatures == {"none", "valid", "invalid"}

PartnerDataRequest ==
  \E partnerId \in PartnerIdInputs, tokenOk \in BOOLEAN, consentId \in ConsentIdInputs,
     requestedFields \in RequestedFieldLists, signature \in Signatures :
    LET r == partnerDataRequest(partnerId, tokenOk, consentId, requestedFields, signature)
    IN
    /\ consents' = r.consents
    /\ dataRequests' = r.dataRequests
    /\ UNCHANGED <<now, ticks, customers, partners, nextContractId, auditVars, sideVars>>

CreateConsent ==
  \E user \in Users, customerId \in CustomerIdInputs, partnerId \in PartnerIdInputs,
     d \in CreateDurations :
    LET r == createConsent(user, customerId, partnerId, d) IN
    /\ Len(r.consents) <= MaxConsents
    /\ consents' = r.consents
    /\ UNCHANGED <<now, ticks, customers, partners, nextContractId, dataRequests,
                   auditVars, sideVars>>

UpdateConsent ==
  \E user \in Users, cid \in ConsentIdInputs, body \in UpdateBodies :
    /\ consents' = updateConsent(user, cid, body).consents
    /\ UNCHANGED <<now, ticks, customers, partners, nextContractId, dataRequests,
                   auditVars, sideVars>>

RevokeConsent ==
  \E user \in Users, cid \in ConsentIdInputs :
    /\ consents' = revokeConsent(user, cid).consents
    /\ UNCHANGED <<now, ticks, customers, partners, nextContractId, dataRequests,
                   auditVars, sideVars>>

DeleteCustomer ==
  \E user \in Users, customerId \in CustomerIdInputs :
    /\ customers' = deleteCustomer(user, customerId).customers
    /\ UNCHANGED <<now, ticks, partners, consents, nextContractId, dataRequests,
                   auditVars, sideVars>>

\* -------------------------------------------------------- audit chain
\* uuidv4() values for logId; $gte / $lte compare them as strings, here as numbers
LogIds == 1 .. (MaxLogs + 1)

\* signatureService.signData / verifySignature with the service's own key pair
signData(data) == <<"signed", data>>
verifySignature(data, signature) == signature = signData(data)

\* auditService.logEvent: writes the event to the console and returns a mock
\* entry { logId: uuidv4(), ... }; nothing is stored in the AuditLog collection.
logEvent(eventType, logId) ==
  [entry |-> [logId |-> logId, eventType |-> eventType], auditLogs |-> auditLogs]

\* AuditLog.find({ logId: { $gte: startId, $lte: endId } }).sort({ createdAt: 1 });
\* auditLogs is kept in creation order
AuditLog_findRange(startId, endId) ==
  SelectSeq(auditLogs, LAMBDA l : l.logId >= startId /\ l.logId <= endId)

\* the loop of verifyLogIntegrity from (1-based) position i of logs
RECURSIVE verifyFrom(_, _)
verifyFrom(logs, i) ==
  IF i > Len(logs)
    THEN [valid |-> TRUE, message |-> "Log chain integrity verified"]
  ELSE IF logs[i].previousHash # logs[i - 1].eventHash
    THEN [valid |-> FALSE, message |-> "Chain broken"]
  ELSE IF ~verifySignature(logs[i].eventHash, logs[i].digitalSignature)
    THEN [valid |-> FALSE, message |-> "Invalid signature"]
  ELSE verifyFrom(logs, i + 1)

\* auditService.verifyLogIntegrity(startId, endId); examined is logs.length
verifyLogIntegrity(startId, endId) ==
  LET logs == AuditLog_findRange(startId, endId) IN
  IF Len(logs) = 0
    THEN [valid |-> TRUE, message |-> "No logs to verify", examined |-> 0]
    ELSE verifyFrom(logs, 2) @@ [examined |-> Len(logs)]

\* A caller appends an entry and keeps the logId it was given. The body of
\* logEvent has no await: calls made by concurrent requests run one after the
\* other, each to its end.
LogEvent ==
  \E eventType \in {"consent_created", "data_request"}, logId \in LogIds :
    /\ Len(issued) < MaxLogs
    /\ \A i \in DOMAIN issued : issued[i] # logId
    /\ LET r == logEvent(eventType, logId) IN
       /\ auditLogs' = r.auditLogs
       /\ issued' = Append(issued, r.entry.logId)
    /\ UNCHANGED <<now, ticks, customers, partners, consents, nextContractId,
                   dataRequests, verdict, sideVars>>

VerifyLogIntegrity ==
  \E startId \in LogIds, endId \in LogIds :
    /\ verdict' = [ran |-> TRUE, startId |-> startId, endId |-> endId,
                    appended |-> Len(issued)]
                  @@ verifyLogIntegrity(startId, endId)
    /\ UNCHANGED <<now, ticks, customers, partners, consents, nextContractId,
                   dataRequests, auditLogs, issued, sideVars>>

\* ---- a persisted chain
\* An AuditLog document with the chain members of auditLogSchema: the i-th
\* entry written has eventHash i (hashes are numbered in the order of writing),
\* the eventHash of the entry before it as previousHash (0 for the first) and
\* the service's signature of its eventHash.
ChainEntry(logId, i) ==
  [logId |-> logId, eventHash |-> i, previousHash |-> i - 1,
   digitalSignature |-> signData(i)]

\* the collection holding a valid chain of 1 .. MaxLogs entries in creation
\* order; logIds are uuids, unrelated to the order of creation
PersistedChains ==
  UNION { { [i \in 1 .. n |-> ChainEntry(ids[i], i)] :
              ids \in { f \in [1 .. n -> LogIds] :
                          \A i, j \in 1 .. n : i # j => f[i] # f[j] } } :
          n \in 1 .. MaxLogs }

InitChain ==
  /\ now = 0
  /\ ticks = 0
  /\ customers = CustomerIds
  /\ partners = [p \in PartnerIds |-> IF p = "p2" THEN EarlierPartner ELSE NoPartner]
  /\ consents = <<>>
  /\ nextContractId = 1
  /\ dataRequests = {}
  /\ auditLogs \in PersistedChains
  /\ issued = <<>>
  /\ verdict = NoVerdict
  /\ tampered = NoTamper
  /\ crypto = NoCrypto
  /\ flight = NoFlight

\* hash values a changed member can be given
TamperValues == 0 .. (MaxLogs + 1)

\* eventHash and previousHash are plain String paths of the schema: a write to
\* the collection changes one of them in one entry, once.
Tamper ==
  \E k \in DOMAIN auditLogs, member \in {"eventHash", "previousHash"},
     v \in TamperValues :
    /\ ~tampered.done
    /\ v # (IF member = "eventHash" THEN auditLogs[k].eventHash
                                    ELSE auditLogs[k].previousHash)
    /\ auditLogs' = [auditLogs EXCEPT ![k] =
                       IF member = "eventHash" THEN [@ EXCEPT !.eventHash = v]
                                               ELSE [@ EXCEPT !.previousHash = v]]
    /\ tampered' = [done |-> TRUE, position |-> k, member |-> member, value |-> v]
    /\ verdict' = NoVerdict
    /\ UNCHANGED <<now, ticks, customers, partners, consents, nextContractId,
                   dataRequests, issued, crypto, flight>>

\* digitalSignature is a plain String path of the schema too: a write to the
\* collection replaces the signature of one entry, once, by the signature of
\* another hash value, which does not verify against the entry's eventHash.
TamperSignature ==
  \E k \in DOMAIN auditLogs, v \in TamperValues :
    /\ ~tampered.done
    /\ v # auditLogs[k].eventHash
    /\ auditLogs' = [auditLogs EXCEPT ![k].digitalSignature = signData(v)]
    /\ tampered' = [done |-> TRUE, position |-> k, member |-> "digitalSignature",
                    value |-> v]
    /\ verdict' = NoVerdict
    /\ UNCHANGED <<now, ticks, customers, partners, consents, nextContractId,
                   dataRequests, issued, crypto, flight>>

\* ------------------------------------------------- encryption services
\* UTF-16 code units of a JavaScript string: an ASCII letter, a high and a low
\* surrogate, and U+FFFD
CodeUnits == {"a", "HI", "LO", "FFFD"}

\* A string is given by its code units or is the JSON text of a value.
Chars(s) == [chars |-> s]

JSON_stringify(v) == [json |-> v]

\* JSON.parse throws a SyntaxError on a text that is not JSON (no string over
\* CodeUnits is)
JSON_parse(text) ==
  IF "json" \in DOMAIN text THEN [ok |-> TRUE, value |-> text.json]
  ELSE [ok |-> FALSE, error |-> "Unexpected token"]

\* the UTF-8 encoding of a sequence of code units, one element for each code
\* point written: a surrogate pair is one four-byte code point, a surrogate
\* without its partner is written as U+FFFD
RECURSIVE utf8Units(_)
utf8Units(s) ==
  IF s = <<>> THEN <<>>
  ELSE IF Len(s) >= 2 /\ s[1] = "HI" /\ s[2] = "LO"
    THEN <<"F0908080">> \o utf8Units(SubSeq(s, 3, Len(s)))
  ELSE IF s[1] = "a" THEN <<"61">> \o utf8Units(Tail(s))
  ELSE <<"EFBFBD">> \o utf8Units(Tail(s))

\* the code units a UTF-8 encoding decodes to
RECURSIVE utf16Units(_)
utf16Units(b) ==
  IF b = <<>> THEN <<>>
  ELSE (IF b[1] = "61" THEN <<"a">>
        ELSE IF b[1] = "EFBFBD" THEN <<"FFFD">>
        ELSE <<"HI", "LO">>) \o utf16Units(Tail(b))

\* the 'utf8' input encoding of cipher.update and hash.update.  JSON.stringify
\* escapes a surrogate without its partner and a literal of the code is ASCII:
\* such a text is well formed and its encoding decodes to the same text.
Buffer_from(text) ==
  IF "chars" \in DOMAIN text THEN [utf8 |-> utf8Units(text.chars)]
  ELSE [utf8WellFormed |-> text]

\* the 'utf8' output encoding of decipher.update and decipher.final
Buffer_toString(buffer) ==
  IF "utf8" \in DOMAIN buffer THEN Chars(utf16Units(buffer.utf8))
  ELSE buffer.utf8WellFormed

\* the 'hex' and 'base64' encodings of a buffer and their decodings
hex(buffer) == [hex |-> buffer]

unhex(text) == text.hex

base64(buffer) == [base64 |-> buffer]

unbase64(text) == text.base64

sha256(buffer) == [sha256 |-> buffer]

\* AES-256-GCM: the ciphertext of a buffer under a key and an iv, and the
\* authentication tag over them
authTagOf(key, iv, buffer) == [tagKey |-> key, tagIv |-> iv, tagData |-> buffer]

createCipheriv(key, iv, buffer) ==
  [encrypted |-> [key |-> key, iv |-> iv, data |-> buffer],
   authTag |-> authTagOf(key, iv, buffer)]

\* decipher.final throws unless key, iv and tag are those of the ciphertext
createDecipheriv(key, iv, authTag, encrypted) ==
  IF /\ encrypted.key = key
     /\ encrypted.iv = iv
     /\ authTag = authTagOf(key, iv, encrypted.data)
  THEN [ok |-> TRUE, data |-> encrypted.data]
  ELSE [ok |-> FALSE, error |-> "Unsupported state or unable to authenticate data"]

\* process.env.ENCRYPTION_KEY
ENCRYPTION_KEY == "ENCRYPTION_KEY"

\* crypto.randomBytes(16)
IVs == {"iv1", "iv2"}

\* encryptField, with the iv it draws
encryptField(plaintext, iv) ==
  LET cipher == createCipheriv(ENCRYPTION_KEY, iv, Buffer_from(plaintext)) IN
  [encryptedValue |-> hex(cipher.encrypted),
   iv |-> hex(iv),
   authTag |-> hex(cipher.authTag),
   hash |-> hex(sha256(Buffer_from(plaintext)))]

\* decryptField: the decrypted string, or the error it throws
decryptField(encryptedData) ==
  LET decipher == createDecipheriv(ENCRYPTION_KEY, unhex(encryptedData.iv),
                                   unhex(encryptedData.authTag),
                                   unhex(encryptedData.encryptedValue)) IN
  IF decipher.ok THEN [ok |-> TRUE, value |-> Buffer_toString(decipher.data)]
  ELSE [ok |-> FALSE, error |-> "Failed to decrypt data"]

\* an authTag that is not the one the cipher produced
corruptTag(authTag) == hex([unhex(authTag) EXCEPT !.tagKey = "corrupted"])

\* a string literal of the code (ASCII)
Literal(s) == [literal |-> s]

\* null, as a Customer path without a value holds it
Null == [null |-> TRUE]

\* if (fieldValue): null and the empty string are skipped
truthy(value) ==
  /\ "null" \notin DOMAIN value
  /\ "chars" \in DOMAIN value => value.chars # <<>>

\* key pairs of partners, and what a partner's publicKey path can hold: the
\* PEM of a pair's public key, or a string that is no RSA public key
\* (registerPartner and updatePartnerPublicKey store any string)
KeyPairs == {"kp1", "kp2"}

PublicKey(pair) == [pem |-> TRUE, pair |-> pair]

PrivateKey(pair) == [pair |-> pair]

MalformedKey == [pem |-> FALSE, pair |-> "none"]

\* crypto.publicEncrypt throws on a key it cannot read
publicEncrypt(publicKey, buffer) ==
  IF publicKey.pem
    THEN [ok |-> TRUE, value |-> [oaepFor |-> publicKey.pair, data |-> buffer]]
    ELSE [ok |-> FALSE, error |-> "error:1E08010C:DECODER routines::unsupported"]

\* crypto.privateDecrypt throws unless the key is the pair's private key
privateDecrypt(privateKey, encrypted) ==
  IF encrypted.oaepFor = privateKey.pair
    THEN [ok |-> TRUE, data |-> encrypted.data]
    ELSE [ok |-> FALSE, error |-> "error:02000079:rsa routines::oaep decoding error"]

\* What one call of an encryption method draws from crypto.randomBytes: its
\* keys and ivs, or an exception (fault) thrown by the first draw.
Draws(fault, tempAesKey, tempIv, aesKey, iv) ==
  [fault |-> fault, tempAesKey |-> tempAesKey, tempIv |-> tempIv,
   aesKey |-> aesKey, iv |-> iv]

\* encryptWithPublicKey(data, publicKeyString): the package, or the error thrown
encryptWithPublicKey(data, publicKeyString, rnd) ==
  LET cipher == createCipheriv(rnd.aesKey, rnd.iv, Buffer_from(data))
      encryptedKey == publicEncrypt(publicKeyString, rnd.aesKey)
  IN
  IF rnd.fault \/ ~encryptedKey.ok
    THEN [ok |-> FALSE, error |-> "Failed to encrypt data with public key"]
    ELSE [ok |-> TRUE,
          value |-> [encryptedData |-> base64(cipher.encrypted),
                     iv |-> base64(rnd.iv),
                     authTag |-> base64(cipher.authTag),
                     encryptedKey |-> base64(encryptedKey.value),
                     algorithm |-> "RSA-OAEP-SHA256+AES-256-GCM"]]

\* the fields encryptCustomerFieldsSecure encrypts: those with a truthy value,
\* all under the one temporary key and iv
encryptedFieldsOf(customerData, tempAesKey, tempIv) ==
  [fieldName \in {f \in DOMAIN customerData : truthy(customerData[f])} |->
     LET cipher == createCipheriv(tempAesKey, tempIv,
                                  Buffer_from(customerData[fieldName]))
     IN [encryptedValue |-> hex(cipher.encrypted),
         iv |-> hex(tempIv),
         authTag |-> hex(cipher.authTag),
         hash |-> hex(sha256(Buffer_from(customerData[fieldName])))]]

\* encryptCustomerFieldsSecure(customerData, partnerPublicKey)
encryptCustomerFieldsSecure(customerData, partnerPublicKey, rnd) ==
  LET payload == [encryptedFields |->
                    encryptedFieldsOf(customerData, rnd.tempAesKey, rnd.tempIv),
                  tempKey |-> base64(rnd.tempAesKey),
                  algorithm |-> "AES-256-GCM-TEMP-KEY"]
      encryptedPayload ==
        encryptWithPublicKey(JSON_stringify(payload), partnerPublicKey,
                             [rnd EXCEPT !.fault = FALSE])
  IN
  IF rnd.fault \/ ~encryptedPayload.ok
    THEN [ok |-> FALSE, error |-> "Failed to encrypt customer data securely"]
    ELSE [ok |-> TRUE,
          value |-> encryptedPayload.value
                    @@ [encryptionType |-> "secure-temporary-key"]]

\* DecryptionService.decryptHybridData with the partner's private key: the
\* parsed data, or the error thrown.  The bank produces one algorithm only.
decryptHybridData(encryptedResponse, privateKey) ==
  LET aesKey == privateDecrypt(privateKey, unbase64(encryptedResponse.encryptedKey))
      decipher == createDecipheriv(aesKey.data, unbase64(encryptedResponse.iv),
                                   unbase64(encryptedResponse.authTag),
                                   unbase64(encryptedResponse.encryptedData))
      parsed == JSON_parse(Buffer_toString(decipher.data))
      failed == [ok |-> FALSE, error |-> "Failed to decrypt data"]
  IN
  IF encryptedResponse.algorithm # "RSA-OAEP-SHA256+AES-256-GCM" THEN failed
  ELSE IF ~aesKey.ok THEN failed
  ELSE IF ~decipher.ok THEN failed
  ELSE IF ~parsed.ok THEN failed
  ELSE [ok |-> TRUE, value |-> parsed.value]

\* the string decryptSecureData puts in the place of a field it cannot decrypt
DECRYPTION_FAILED == Literal("[DECRYPTION_FAILED: ...]")

\* DecryptionService.decryptSecureData with the partner's private key
decryptSecureData(encryptedResponse, privateKey) ==
  LET decryptedPayload == decryptHybridData(encryptedResponse, privateKey)
      encryptedFields == decryptedPayload.value.encryptedFields
      tempAesKey == unbase64(decryptedPayload.value.tempKey)
      decrypted(encryptedField) ==
        LET decipher == createDecipheriv(tempAesKey, unhex(encryptedField.iv),
                                         unhex(encryptedField.authTag),
                                         unhex(encryptedField.encryptedValue))
        IN IF decipher.ok THEN Buffer_toString(decipher.data)
           ELSE DECRYPTION_FAILED
      failed == [ok |-> FALSE, error |-> "Failed to decrypt secure data"]
  IN
  IF ~decryptedPayload.ok THEN failed
  ELSE IF "algorithm" \notin DOMAIN decryptedPayload.value THEN failed
  ELSE IF decryptedPayload.value.algorithm # "AES-256-GCM-TEMP-KEY" THEN failed
  ELSE [ok |-> TRUE,
        value |-> [fieldName \in DOMAIN encryptedFields |->
                     decrypted(encryptedFields[fieldName])]]

\* ---- values on their way through the encryption services
\* plaintext strings of up to MaxLen code units, the empty string included
Plaintexts == {Chars(s) : s \in UNION {[1 .. n -> CodeUnits] : n \in 0 .. MaxLen}}

\* values of a customer field handed to encryptCustomerFieldsSecure
FieldValues == {Chars(s) : s \in UNION {[1 .. n -> CodeUnits] : n \in 0 .. 1}}

FieldNames == {"phone", "email"}

\* field maps from field names to string values
FieldMaps ==
  UNION {[names -> FieldValues] : names \in (SUBSET FieldNames) \ {{}}}

\* what one call of encryptCustomerFieldsSecure can draw
SecureDraws == {Draws(fault, "t1", tempIv, "k1", "iv1") :
                  fault \in BOOLEAN, tempIv \in IVs}

\* a plaintext to be stored, or a field map to be sent to a partner holding
\* the key pair
InitCrypto ==
  /\ now = 0
  /\ ticks = 0
  /\ customers = CustomerIds
  /\ partners = [p \in PartnerIds |-> IF p = "p2" THEN EarlierPartner ELSE NoPartner]
  /\ consents = <<>>
  /\ nextContractId = 1
  /\ dataRequests = {}
  /\ auditLogs = <<>>
  /\ issued = <<>>
  /\ verdict = NoVerdict
  /\ tampered = NoTamper
  /\ crypto \in {[stage |-> "plaintext", plaintext |-> P] : P \in Plaintexts}
                \cup {[stage |-> "fields", fields |-> F, pair |-> pair] :
                        F \in FieldMaps, pair \in KeyPairs}
  /\ flight = NoFlight

\* encryptField(plaintext), as createCustomer does before it stores the field
EncryptField ==
  \E iv \in IVs :
    /\ crypto.stage = "plaintext"
    /\ crypto' = [stage |-> "stored", plaintext |-> crypto.plaintext,
                  encrypted |-> encryptField(crypto.plaintext, iv)]
    /\ UNCHANGED <<now, ticks, customers, partners, consents, nextContractId,
                   dataRequests, auditVars, tampered, flight>>

\* the stored authTag is changed in the collection
CorruptField ==
  /\ crypto.stage = "stored"
  /\ crypto' = [crypto EXCEPT !.stage = "corrupted",
                              !.encrypted.authTag = corruptTag(@)]
  /\ UNCHANGED <<now, ticks, customers, partners, consents, nextContractId,
                 dataRequests, auditVars, tampered, flight>>

\* decryptField(encryptedData) on what is stored
DecryptField ==
  /\ crypto.stage \in {"stored", "corrupted"}
  /\ crypto' = [stage |-> "decrypted", plaintext |-> crypto.plaintext,
                encrypted |-> crypto.encrypted,
                intact |-> crypto.stage = "stored",
                result |-> decryptField(crypto.encrypted)]
  /\ UNCHANGED <<now, ticks, customers, partners, consents, nextContractId,
                 dataRequests, auditVars, tampered, flight>>

\* encryptCustomerFieldsSecure(customerData, partnerPublicKey) with the public
\* key of the partner's pair
EncryptSecure ==
  \E rnd \in SecureDraws :
    /\ crypto.stage = "fields"
    /\ crypto' = [stage |-> "sealed", fields |-> crypto.fields, pair |-> crypto.pair,
                  intact |-> TRUE,
                  envelope |-> encryptCustomerFieldsSecure(crypto.fields,
                                                           PublicKey(crypto.pair), rnd)]
    /\ UNCHANGED <<now, ticks, customers, partners, consents, nextContractId,
                   dataRequests, auditVars, tampered, flight>>

\* the envelope's authTag is changed on the way to the partner
CorruptEnvelope ==
  /\ crypto.stage = "sealed"
  /\ crypto.intact
  /\ crypto.envelope.ok
  /\ crypto' = [crypto EXCEPT
                  !.intact = FALSE,
                  !.envelope.value.authTag =
                     base64([unbase64(@) EXCEPT !.tagKey = "corrupted"])]
  /\ UNCHANGED <<now, ticks, customers, partners, consents, nextContractId,
                 dataRequests, auditVars, tampered, flight>>

\* decryptSecureData(encryptedResponse) by a partner holding a private key
DecryptSecure ==
  \E key \in KeyPairs :
    /\ crypto.stage = "sealed"
    /\ crypto.envelope.ok
    /\ crypto' = [stage |-> "opened", fields |-> crypto.fields, pair |-> crypto.pair,
                  intact |-> crypto.intact, key |-> key,
                  result |-> decryptSecureData(crypto.envelope.value, PrivateKey(key))]
    /\ UNCHANGED <<now, ticks, customers, partners, consents, nextContractId,
                   dataRequests, auditVars, tampered, flight>>

\* ------------------------------------------ disclosure payloads and push
\* a Customer path that was never set
Undefined == [undefined |-> TRUE]

\* no publicKey on the Partner document
NoKey == [pem |-> FALSE, pair |-> "undefined"]

\* fieldMap of partnerDataRequest
fieldMap ==
  [phone |-> "encryptedPhone", email |-> "encryptedEmail", pan |-> "encryptedPan",
   address |-> "encryptedAddress", name |-> "encryptedName"]

\* what stands in for the customer's data when no requested field was found
testData ==
  [testData |-> Literal("This is test data to demonstrate encryption"),
   name |-> Literal("Test Customer"),
   email |-> Literal("test@example.com"),
   phone |-> Literal("+1234567890")]

\* the value partnerDataRequest finds for a requested field: the path of that
\* name, else the mapped encrypted path, else nothing
fieldOf(customer, field) ==
  IF field \in DOMAIN customer /\ customer[field] # Undefined
    THEN customer[field]
  ELSE IF field \in DOMAIN fieldMap /\ fieldMap[field] \in DOMAIN customer
          /\ customer[fieldMap[field]] # Undefined
    THEN customer[fieldMap[field]]
  ELSE Undefined

\* responseData as gathered from the customer document
responseDataOf(customer, requestedFields) ==
  LET found == {requestedFields[i] : i \in DOMAIN requestedFields}
               \cap {field \in DOMAIN fieldMap \cup DOMAIN customer :
                       fieldOf(customer, field) # Undefined}
  IN IF found = {} THEN testData
     ELSE [field \in found |-> fieldOf(customer, field)]

\* a string holding the JSON text of an EncryptedField
isEncryptedField(value) ==
  /\ "json" \in DOMAIN value
  /\ {"encryptedValue", "iv", "authTag"} \subseteq DOMAIN value.json

\* the fields of responseData that decryptField fails on
decryptFailures(responseData) ==
  {key \in DOMAIN responseData :
     /\ isEncryptedField(responseData[key])
     /\ ~decryptField(JSON_parse(responseData[key]).value).ok}

\* fullyDecryptedData: stored ciphertext decrypted with the bank's key; "Keep
\* original if decryption fails"
fullyDecryptedDataOf(responseData) ==
  [key \in DOMAIN responseData |->
     LET value == responseData[key] IN
     IF isEncryptedField(value) /\ key \notin decryptFailures(responseData)
       THEN decryptField(JSON_parse(value).value).value
       ELSE value]

\* encryptedResponse and encryptionMethod: secure encryption, else the
\* standard fallback, else "Ultimate fallback to unencrypted"
encryptionOf(responseData, fullyDecryptedData, publicKey, rndSecure, rndStandard) ==
  LET secure == encryptCustomerFieldsSecure(fullyDecryptedData, publicKey, rndSecure)
      standard == encryptWithPublicKey(JSON_stringify(responseData), publicKey,
                                       rndStandard)
  IN
  IF publicKey = NoKey
    THEN [encryptedResponse |-> Null, encryptionMethod |-> "none"]
  ELSE IF secure.ok
    THEN [encryptedResponse |-> secure.value,
          encryptionMethod |-> "secure-temporary-key"]
  ELSE IF standard.ok
    THEN [encryptedResponse |-> standard.value, encryptionMethod |-> "standard-hybrid"]
  ELSE [encryptedResponse |-> Null, encryptionMethod |-> "none"]

\* the body notifyPartnerContractStatus posts for eventType
\* 'customer_data_shared' (data.customerData is an object, so the branch for
\* payloads without customer data is not taken)
notificationBody(partnerId, data, publicKey, rndPush) ==
  LET notificationPayload ==
        [eventType |-> "customer_data_shared", partnerId |-> partnerId, data |-> data]
      encryptedPayload ==
        encryptCustomerFieldsSecure(data.customerData, publicKey, rndPush)
  IN
  IF publicKey # NoKey /\ encryptedPayload.ok
    THEN [encrypted |-> TRUE, encryptionType |-> "secure-temporary-key",
          data |-> encryptedPayload.value,
          metadata |-> [requestedFields |-> data.requestedFields,
                        encrypted |-> data.encrypted,
                        encryptionMethod |-> data.encryptionMethod]]
    ELSE notificationPayload

\* What partnerDataRequest makes of the customer document once the request has
\* passed its checks: the payloads, the body posted to the callback URL and
\* the body of the API response.  rnd holds what the three encryption calls
\* draw: the controller's secure and standard calls and the push's.
disclosure(partnerId, customer, publicKey, callbackUrl, requestedFields, rnd) ==
  LET responseData == responseDataOf(customer, requestedFields)
      fullyDecryptedData == fullyDecryptedDataOf(responseData)
      enc == encryptionOf(responseData, fullyDecryptedData, publicKey,
                          rnd.secure, rnd.standard)
      data == [requestedFields |-> requestedFields,
               customerData |-> IF enc.encryptionMethod = "secure-temporary-key"
                                  THEN fullyDecryptedData ELSE responseData,
               encrypted |-> enc.encryptedResponse # Null,
               encryptionMethod |-> enc.encryptionMethod]
  IN
  [publicKey |-> publicKey,
   callbackUrl |-> callbackUrl,
   responseData |-> responseData,
   fullyDecryptedData |-> fullyDecryptedData,
   encryptedResponse |-> enc.encryptedResponse,
   encryptionMethod |-> enc.encryptionMethod,
   webhook |-> IF callbackUrl
                 THEN [sent |-> TRUE,
                       body |-> notificationBody(partnerId, data, publicKey, rnd.push)]
                 ELSE [sent |-> FALSE],
   response |-> [code |-> 200, status |-> "success",
                 encrypted |-> enc.encryptedResponse # Null,
                 data |-> IF enc.encryptedResponse # Null THEN enc.encryptedResponse
                          ELSE responseData,
                 message |-> IF callbackUrl
                   THEN "Data sent via API response and pushed to partner endpoint"
                   ELSE "Data sent via API response only"]]

\* ---- data requests of a partner that holds a consent
\* what a customer's encrypted paths can hold: the JSON text of an
\* EncryptedField, one whose authTag no longer verifies, null, or nothing
StoredFields(plaintext) ==
  {JSON_stringify(encryptField(plaintext, "iv1")),
   JSON_stringify([encryptField(plaintext, "iv1") EXCEPT !.authTag = corruptTag(@)]),
   Null, Undefined}

CustomerDocuments ==
  {[encryptedPhone |-> phone, encryptedEmail |-> email] :
     phone \in StoredFields(Chars(<<"a">>)),
     email \in {JSON_stringify(encryptField(Chars(<<"a", "a">>), "iv2")), Undefined}}

\* what one encryption call made while answering a data request can draw
DisclosureDraws == {Draws(fault, "t1", "iv1", "k1", "iv2") : fault \in BOOLEAN}

\* the publicKey strings behind a partner's publicKey path
KeysOnFile(partner) ==
  IF partner.exists /\ partner.publicKey THEN {PublicKey("kp1"), MalformedKey}
  ELSE {NoKey}

\* Partner p1 holds an approved contract for phone and email, with or without
\* a public key and a callback URL, and an active consent of customer c1.
InitDisclosure ==
  /\ now = 0
  /\ ticks = 0
  /\ customers = CustomerIds
  /\ \E publicKey \in BOOLEAN, callbackUrl \in BOOLEAN :
       partners =
         [p \in PartnerIds |->
            IF p = "p2" THEN EarlierPartner
            ELSE [exists |-> TRUE, status |-> "active",
                  requestedContract |->
                    [allowedDataFields |-> {"phone", "email"}, purpose |-> "kyc",
                     retentionPeriod |-> 14, legalBasis |-> "legal obligation",
                     contractText |-> "kyc terms"],
                  approvedContract |-> TRUE,
                  contractData |->
                    ApprovedContractData([allowedDataFields |-> {"phone", "email"},
                                          purpose |-> "kyc", retentionPeriod |-> 14,
                                          legalBasis |-> "legal obligation",
                                          contractText |-> "kyc terms"], 1),
                  contractApprovedAt |-> Some(0), contractApprovedBy |-> Some(Admin),
                  publicKey |-> publicKey, callbackUrl |-> callbackUrl]]
  /\ consents =
       <<[customerId |-> "c1", partnerId |-> "p1",
          allowedDataFields |-> {"phone", "email"}, purpose |-> "kyc",
          retentionPeriod |-> 14, contractId |-> 1, status |-> "active",
          createdAt |-> 0, expiresAt |-> MIN_CONSENT_DURATION_MS,
          consentDuration |-> MIN_CONSENT_DURATION_MS]>>
  /\ nextContractId = 2
  /\ dataRequests = {}
  /\ auditLogs = <<>>
  /\ issued = <<>>
  /\ verdict = NoVerdict
  /\ tampered = NoTamper
  /\ crypto = NoCrypto
  /\ flight = NoFlight

\* partnerDataRequest from the request to its first wait on the network: a
\* refused request is answered at once; an accepted one builds its payloads
\* and, if the partner has a callback URL, posts the webhook body and awaits
\* notifyPartnerContractStatus before it gets to res.json; without a callback
\* URL it answers at once.
DataRequestReceived ==
  \E partnerId \in PartnerIdInputs, tokenOk \in BOOLEAN, consentId \in ConsentIdInputs,
     requestedFields \in RequestedFieldLists, signature \in Signatures,
     customer \in CustomerDocuments,
     rndSecure \in DisclosureDraws, rndStandard \in DisclosureDraws,
     rndPush \in DisclosureDraws :
    \E publicKey \in KeysOnFile(Partner_findOne(partnerId)) :
      LET r == partnerDataRequest(partnerId, tokenOk, consentId, requestedFields,
                                  signature)
          callbackUrl == Partner_findOne(partnerId).callbackUrl
      IN
      /\ flight.push # "pending"
      /\ consents' = r.consents
      /\ dataRequests' = r.dataRequests
      /\ flight' =
           IF r.code # 200
             THEN [push |-> "none", responded |-> TRUE, code |-> r.code]
             ELSE [push |-> IF callbackUrl THEN "pending" ELSE "none",
                   responded |-> ~callbackUrl, code |-> 200]
                  @@ disclosure(partnerId, customer, publicKey, callbackUrl,
                                requestedFields,
                                [secure |-> rndSecure, standard |-> rndStandard,
                                 push |-> rndPush])
                  @@ [requestedFields |-> requestedFields, customer |-> customer]
      /\ UNCHANGED <<now, ticks, customers, partners, nextContractId, auditVars,
                     tampered, crypto>>

\* The awaited push settles: fetch resolved with a 2xx status (delivered), or
\* resolved with another status or rejected (failed; notifyPartnerContractStatus
\* catches the error and returns success: false).  partnerDataRequest resumes
\* and sends the API response.
PushSettles ==
  \E outcome \in {"delivered", "failed"} :
    /\ flight.push = "pending"
    /\ flight' = [flight EXCEPT !.push = outcome, !.responded = TRUE]
    /\ UNCHANGED <<now, ticks, customers, partners, consents, nextContractId,
                   dataRequests, auditVars, tampered, crypto>>

Next ==
  \/ Tick
  \/ RegisterPartner
  \/ UpdatePartner
  \/ UpdatePartnerKey
  \/ ApprovePartnerContract
  \/ CreateConsent
  \/ UpdateConsent
  \/ RevokeConsent
  \/ DeleteCustomer
  \/ PartnerDataRequest

Spec == Init /\ [][Next]_vars

\* The audit service on its own: appends and integrity checks.
NextAudit ==
  \/ LogEvent
  \/ VerifyLogIntegrity

SpecAudit == Init /\ [][NextAudit]_vars

\* A persisted chain, one change to it, and integrity checks.
NextTamper ==
  \/ Tamper
  \/ VerifyLogIntegrity

SpecTamper == InitChain /\ [][NextTamper]_vars

\* A persisted chain, one replaced signature, and integrity checks.
NextSignature ==
  \/ TamperSignature
  \/ VerifyLogIntegrity

SpecSignature == InitChain /\ [][NextSignature]_vars

\* Data requests of p1 and revocations of the consent they name, interleaved:
\* revokeConsent runs to its save while a request waits for its push.
NextRevocation ==
  \/ DataRequestReceived
  \/ PushSettles
  \/ RevokeConsent

SpecRevocation == InitDisclosure /\ [][NextRevocation]_vars

\* The encryption services on their own.
NextCrypto ==
  \/ EncryptField
  \/ CorruptField
  \/ DecryptField
  \/ EncryptSecure
  \/ CorruptEnvelope
  \/ DecryptSecure

SpecCrypto == InitCrypto /\ [][NextCrypto]_vars

\* Data requests of a partner holding a consent, and the pushes they await.
NextDisclosure ==
  \/ DataRequestReceived
  \/ PushSettles

SpecDisclosure == InitDisclosure /\ [][NextDisclosure]_vars

\* a posted webhook body says its content is encrypted: the encrypted body in
\* its own encrypted member, the plain notificationPayload in data.encrypted
flaggedEncrypted(body) ==
  IF "eventType" \in DOMAIN body THEN body.data.encrypted ELSE body.encrypted

\* a posted webhook body holds a decrypted customer field value as it is
carriesPlaintext(body) ==
  /\ "eventType" \in DOMAIN body
  /\ \E field \in DOMAIN body.data.customerData :
       "chars" \in DOMAIN body.data.customerData[field]

\* ===================================================================
\* Properties
\* ===================================================================
\* the partner is registered, active and holds an approved contract
ActiveApprovedPartner(partnerId) ==
  /\ partners[partnerId].exists
  /\ partners[partnerId].status = "active"
  /\ partners[partnerId].approvedContract
  /\ partners[partnerId].contractData.present

\* C1: a data request by an active partner with an approved contract on an
\* active, unexpired consent of that partner is rejected with "Fields not
\* allowed" if and only if some requested field is outside the consent's
\* allowedDataFields, and the rejection lists exactly the offending fields and
\* records no DataRequest.
C1_FieldsNotAllowedIffNotSubset ==
  \A partnerId \in PartnerIds, consentId \in DOMAIN consents,
     requestedFields \in RequestedFieldLists, signature \in Signatures :
    LET consent == consents[consentId]
        r == partnerDataRequest(partnerId, TRUE, consentId, requestedFields, signature)
        offending == {requestedFields[i] : i \in DOMAIN requestedFields}
                       \ consent.allowedDataFields
    IN
    (/\ ActiveApprovedPartner(partnerId)
     /\ consent.partnerId = partnerId
     /\ consent.status = "active"
     /\ now <= consent.expiresAt)
    => /\ (r.code = 403 /\ r.message = "Fields not allowed") <=> (offending # {})
       /\ {r.invalidFields[i] : i \in DOMAIN r.invalidFields} = offending
       /\ (offending # {}) => (r.dataRequests = dataRequests /\ r.audit = <<>>)

\* C1 witness: on a consent allowing {phone, email} the request for
\* <<phone, email>> has gone through and a request for <<phone, ssn>> is
\* answered with ssn as the one offending field.
C1_Witness ==
  \E consentId \in DOMAIN consents :
    LET consent == consents[consentId] IN
    /\ ActiveApprovedPartner(consent.partnerId)
    /\ consent.status = "active"
    /\ now <= consent.expiresAt
    /\ consent.allowedDataFields = {"phone", "email"}
    /\ [consentId |-> consentId, partnerId |-> consent.partnerId,
        requestedFields |-> <<"phone", "email">>] \in dataRequests
    /\ partnerDataRequest(consent.partnerId, TRUE, consentId, <<"phone", "ssn">>,
                          "none").invalidFields = <<"ssn">>

\* C2 (as claimed): a data request of an active partner with an approved
\* contract on one of its consents fails with "Consent expired" if and only if
\* now > expiresAt, whatever the consent's stored status.
C2_ExpiredWhateverStatus ==
  \A partnerId \in PartnerIds, consentId \in DOMAIN consents,
     requestedFields \in RequestedFieldLists, signature \in Signatures :
    LET consent == consents[consentId]
        r == partnerDataRequest(partnerId, TRUE, consentId, requestedFields, signature)
    IN
    (ActiveApprovedPartner(partnerId) /\ consent.partnerId = partnerId)
    => ((r.message = "Consent expired") <=> (now > consent.expiresAt))

\* C2 (amended): such a request fails with "Consent expired" if and only if the
\* consent's stored status is active and now > expiresAt, and then the stored
\* status becomes expired; on a consent stored as revoked, expired or pending
\* it fails with "No active consent found" at any time and changes nothing.
C2_ExpiredIffActiveAndPastExpiry ==
  \A partnerId \in PartnerIds, consentId \in DOMAIN consents,
     requestedFields \in RequestedFieldLists, signature \in Signatures :
    LET consent == consents[consentId]
        r == partnerDataRequest(partnerId, TRUE, consentId, requestedFields, signature)
    IN
    (ActiveApprovedPartner(partnerId) /\ consent.partnerId = partnerId)
    => /\ (r.code = 403 /\ r.message = "Consent expired")
            <=> (consent.status = "active" /\ now > consent.expiresAt)
       /\ (r.message = "Consent expired")
            => r.consents = [consents EXCEPT ![consentId].status = "expired"]
       /\ (consent.status # "active")
            => (r.code = 404 /\ r.message = "No active consent found"
                /\ r.consents = consents)

\* C2 witness: a data request has found a consent past its expiry and stored
\* it as expired; a further request on it is answered with 404.
C2_Witness ==
  \E consentId \in DOMAIN consents :
    LET consent == consents[consentId] IN
    /\ consent.status = "expired"
    /\ now > consent.expiresAt
    /\ ActiveApprovedPartner(consent.partnerId)
    /\ partnerDataRequest(consent.partnerId, TRUE, consentId, <<"phone", "email">>,
                          "none").code = 404

\* C3: a data request by an authenticated partner whose approvedContract is
\* false is answered with 403 "Partner is not active or does not have an
\* approved contract" before anything else is done: no consent lookup, no
\* DataRequest, no audit event, no decryption or encryption, no push, and the
\* stored consents are left as they are.
C3_UnapprovedRejectedFirst ==
  \A partnerId \in PartnerIds, consentId \in ConsentIdInputs,
     requestedFields \in RequestedFieldLists, signature \in Signatures :
    LET r == partnerDataRequest(partnerId, TRUE, consentId, requestedFields, signature)
    IN
    (partners[partnerId].exists /\ ~partners[partnerId].approvedContract)
    => /\ r.code = 403
       /\ r.message = "Partner is not active or does not have an approved contract"
       /\ r.steps = <<>>
       /\ r.audit = <<>>
       /\ ~r.notified
       /\ r.dataRequests = dataRequests
       /\ r.consents = consents

\* C3 witness: an active partner has lost its approved contract while one of
\* its consents is still active and unexpired and the customer still exists, so
\* that nothing but the contract check stands between it and the data.
C3_Witness ==
  \E consentId \in DOMAIN consents :
    LET consent == consents[consentId]
        partner == partners[consent.partnerId]
    IN
    /\ partner.exists /\ partner.status = "active" /\ ~partner.approvedContract
    /\ consent.status = "active"
    /\ now <= consent.expiresAt
    /\ consent.customerId \in customers
    /\ partnerDataRequest(consent.partnerId, TRUE, consentId, <<"phone">>,
                          "none").code = 403

\* C4 (as claimed): once a consent's stored status is revoked or expired, no
\* step changes it.
C4_TerminalStatusNeverChanges ==
  [][\A cid \in DOMAIN consents :
       consents[cid].status \in {"revoked", "expired"}
         => consents'[cid].status = consents[cid].status]_vars

\* C5 (as claimed): revokeConsent on an already revoked consent is rejected:
\* no success response, no consent_revoked audit event, no notification, and
\* the consents are left as they are.
C5_RevokeOfRevokedRejected ==
  \A user \in Users, cid \in DOMAIN consents :
    LET r == revokeConsent(user, cid) IN
    (consents[cid].status = "revoked")
    => (r.code # 200 /\ r.audit = <<>> /\ ~r.notified /\ r.consents = consents)

\* C6 (as claimed): every stored consent has expiresAt = createdAt +
\* consentDuration.
C6_ExpiresAtIsCreatedAtPlusDuration ==
  \A cid \in DOMAIN consents :
    consents[cid].expiresAt = consents[cid].createdAt + consents[cid].consentDuration

\* C6 (amended): a consent is created with expiresAt = createdAt +
\* consentDuration and createdAt never changes; a later step either leaves
\* expiresAt and consentDuration as they are, or (updateConsent with a
\* retentionPeriod) sets expiresAt to createdAt plus the new retentionPeriod in
\* days, or (updateConsent with a consentDuration and no retentionPeriod) sets
\* expiresAt to the time of the update plus the new consentDuration.
C6_ExpiryAsRecalculated ==
  [][\A cid \in DOMAIN consents' :
       LET after == consents'[cid] IN
       IF cid \notin DOMAIN consents
         THEN /\ after.createdAt = now
              /\ after.expiresAt = after.createdAt + after.consentDuration
         ELSE LET before == consents[cid] IN
              /\ after.createdAt = before.createdAt
              /\ \/ /\ after.expiresAt = before.expiresAt
                    /\ after.consentDuration = before.consentDuration
                    /\ after.retentionPeriod = before.retentionPeriod
                 \/ after.expiresAt =
                      before.createdAt + after.retentionPeriod * MsPerDay
                 \/ /\ after.retentionPeriod = before.retentionPeriod
                    /\ after.expiresAt = now + after.consentDuration]_vars

\* C6 witness: updateConsent has left a consent whose expiresAt is not
\* createdAt + consentDuration.
C6_Witness ==
  \E cid \in DOMAIN consents :
    /\ consents[cid].expiresAt # consents[cid].createdAt + consents[cid].consentDuration
    /\ consents[cid].expiresAt \in
         {now + consents[cid].consentDuration,
          consents[cid].createdAt + consents[cid].retentionPeriod * MsPerDay}

\* C7 (as claimed): createConsent and updateConsent answer a consentDuration
\* below MIN_CONSENT_DURATION_MS with a 400 validation error and change no
\* stored consent, and every stored consent has consentDuration >=
\* MIN_CONSENT_DURATION_MS.
C7_BelowMinimumRejected ==
  /\ \A user \in Users, customerId \in CustomerIdInputs, partnerId \in PartnerIdInputs,
        d \in CreateDurations :
       LET r == createConsent(user, customerId, partnerId, d) IN
       (d.given /\ d.v < MIN_CONSENT_DURATION_MS)
       => (r.code = 400 /\ r.consents = consents)
  /\ \A user \in Users, cid \in DOMAIN consents, body \in UpdateBodies :
       LET r == updateConsent(user, cid, body) IN
       (body.consentDuration.given /\ body.consentDuration.v < MIN_CONSENT_DURATION_MS)
       => (r.code = 400 /\ r.consents = consents)
  /\ \A cid \in DOMAIN consents :
       consents[cid].consentDuration >= MIN_CONSENT_DURATION_MS

\* C8: a step that changes a partner (updatePartner with a new
\* requestedContract, approvePartnerContract approving or rejecting) leaves
\* every stored consent's allowedDataFields, purpose, retentionPeriod and
\* contractId as they were.
C8_ContractOperationsKeepSnapshots ==
  [][(partners' # partners)
       => /\ DOMAIN consents' = DOMAIN consents
          /\ \A cid \in DOMAIN consents :
               /\ consents'[cid].allowedDataFields = consents[cid].allowedDataFields
               /\ consents'[cid].purpose = consents[cid].purpose
               /\ consents'[cid].retentionPeriod = consents[cid].retentionPeriod
               /\ consents'[cid].contractId = consents[cid].contractId]_vars

\* C8 witness: after a consent was created from contract 1 of p1, a new
\* contract was requested and approved for p1; the consent still carries
\* contract 1 while the partner's approved contract is another one.
C8_Witness ==
  \E cid \in DOMAIN consents :
    LET consent == consents[cid]
        partner == partners[consent.partnerId]
    IN
    /\ partner.exists /\ partner.approvedContract /\ partner.contractData.present
    /\ partner.contractData.contractId # consent.contractId
    /\ partner.contractData.allowedDataFields # consent.allowedDataFields

\* C9: createConsent stores a consent only if the customer exists, the partner
\* exists and the partner has an approved contract, and the stored consent's
\* allowedDataFields, purpose, retentionPeriod and contractId are then those of
\* the partner's contractData; any other answer stores nothing, and a request
\* with a valid duration is answered 404 when the customer or the partner is
\* missing and 403 "no approved contract" when only the contract is.
C9_CreateOnlyWithApprovedContract ==
  \A user \in Users, customerId \in CustomerIdInputs, partnerId \in PartnerIdInputs,
     d \in CreateDurations :
    LET r == createConsent(user, customerId, partnerId, d)
        partnerExists == partnerId \in DOMAIN partners /\ partners[partnerId].exists
        approved == /\ partnerExists
                    /\ partners[partnerId].approvedContract
                    /\ partners[partnerId].contractData.present
        validDuration == d.given /\ d.v >= MIN_CONSENT_DURATION_MS
        stored == r.consents[Len(r.consents)]
        contract == partners[partnerId].contractData
    IN
    /\ (r.code = 201) <=> (r.consents # consents)
    /\ (r.code = 201)
         => /\ customerId \in customers /\ approved
            /\ r.consents = Append(consents, stored)
            /\ stored.customerId = customerId /\ stored.partnerId = partnerId
            /\ stored.allowedDataFields = contract.allowedDataFields
            /\ stored.purpose = contract.purpose
            /\ stored.retentionPeriod = contract.retentionPeriod
            /\ stored.contractId = contract.contractId
    /\ (validDuration /\ customerId \notin customers)
         => (r.code = 404 /\ r.message = "No customer found with that ID")
    /\ (validDuration /\ customerId \in customers /\ ~partnerExists)
         => (r.code = 404 /\ r.message = "No partner found with that ID")
    /\ (validDuration /\ customerId \in customers /\ partnerExists /\ ~approved)
         => (r.code = 403
             /\ r.message = "This partner does not have an approved contract yet")
    /\ (validDuration /\ customerId \in customers /\ approved) => (r.code = 201)

\* C9 witness: a consent was created for p1 from its approved contract, and
\* since then the customer was deleted and the contract rejected, so that the
\* same request is now refused.
C9_Witness ==
  \E cid \in DOMAIN consents :
    LET consent == consents[cid] IN
    /\ consent.partnerId = "p1"
    /\ consent.allowedDataFields = {"phone", "email"}
    /\ consent.contractId = 1
    /\ ~partners["p1"].approvedContract
    /\ createConsent(Admin, consent.customerId, "p1",
                     Some(MIN_CONSENT_DURATION_MS)).code = 403
    /\ createConsent(Admin, "c0", "p1", Some(MIN_CONSENT_DURATION_MS)).code = 404

\* C10 (as claimed): when verifyLogIntegrity is called with the logId of the
\* first and of the last of the N >= 1 entries appended through logEvent, it
\* examines all N entries and answers valid.
C10_VerifyExaminesAllAppended ==
  (/\ verdict.ran
   /\ verdict.appended >= 1
   /\ verdict.startId = issued[1]
   /\ verdict.endId = issued[verdict.appended])
  => (verdict.valid /\ verdict.examined = verdict.appended)

\* C11 (as claimed): after the eventHash or the previousHash of one entry of a
\* valid persisted chain was changed, verifyLogIntegrity over the full range of
\* logIds answers valid = false.
C11_TamperingDetected ==
  (/\ tampered.done
   /\ verdict.ran
   /\ verdict.startId = 1
   /\ verdict.endId = MaxLogs + 1)
  => ~verdict.valid

\* C12 (as claimed): every logEvent call has persisted exactly one AuditLog
\* entry, in creation order, and each entry's previousHash is the eventHash
\* of the entry before it.
C12_EveryAppendPersistedAndLinked ==
  /\ Len(auditLogs) = Len(issued)
  /\ \A n \in DOMAIN auditLogs :
       /\ auditLogs[n].logId = issued[n]
       /\ (n > 1) => (auditLogs[n].previousHash = auditLogs[n - 1].eventHash)

C14_AuditFailureNotFatal ==
  /\ \A user \in Users, customerId \in CustomerIdInputs, partnerId \in PartnerIdInputs,
        d \in CreateDurations :
       LET r == createConsent(user, customerId, partnerId, d) IN
       (r.code = 201)
       => (auditFailure(r).code = 201 /\ auditFailure(r).consents = r.consents)
  /\ \A user \in Users, cid \in ConsentIdInputs :
       LET r == revokeConsent(user, cid) IN
       (r.code = 200)
       => (auditFailure(r).code = 200 /\ auditFailure(r).consents = r.consents)
  /\ \A partnerId \in PartnerIdInputs, consentId \in ConsentIdInputs,
        requestedFields \in RequestedFieldLists, signature \in Signatures :
       LET r == partnerDataRequest(partnerId, TRUE, consentId, requestedFields,
                                   signature)
       IN
       (r.code = 200)
       => (auditFailure(r).code = 200 /\ auditFailure(r).steps = r.steps)

\* C18: for every plaintext string P, decryptField applied to what encryptField
\* made of P, unchanged in between, returns P and nothing else.
C18_DecryptFieldReturnsPlaintext ==
  (crypto.stage = "decrypted" /\ crypto.intact)
    => (crypto.result.ok /\ crypto.result.value = crypto.plaintext)

\* C19: for every field map F from field names to string values, empty strings
\* included, and every partner key pair, decryptSecureData with the private key
\* applied to what encryptCustomerFieldsSecure made of F with the public key
\* returns a map with the field names of F and the value F has for each.
C19_SecureRoundTripReturnsFields ==
  (crypto.stage = "opened" /\ crypto.intact /\ crypto.key = crypto.pair)
    => /\ crypto.result.ok
       /\ DOMAIN crypto.result.value = DOMAIN crypto.fields
       /\ \A f \in DOMAIN crypto.fields : crypto.result.value[f] = crypto.fields[f]

\* C15: the response of partnerDataRequest does not wait for the push to the
\* partner's callbackUrl: while the push is still under way the response has
\* been sent already, so a push that never completes cannot hold it back.
C15_ResponseDoesNotWaitForPush ==
  flight.push = "pending" => flight.responded

\* C16: no payload sent for a disclosure and flagged encrypted:true carries
\* customer field values in plaintext, whichever encryption calls fail in the
\* controller or in the notification service: an API response flagged encrypted
\* carries an envelope, and a webhook body flagged encrypted holds no decrypted
\* field value.
C16_NoPlaintextFlaggedEncrypted ==
  flight.code = 200 =>
    /\ flight.response.encrypted =>
         {"encryptedData", "iv", "authTag", "encryptedKey", "algorithm"}
           \subseteq DOMAIN flight.response.data
    /\ (flight.webhook.sent /\ flaggedEncrypted(flight.webhook.body))
         => ~carriesPlaintext(flight.webhook.body)

\* C17: a successful partnerDataRequest response has encrypted:false if and
\* only if the partner has no public key on file; with a public key on file it
\* has encrypted:true and carries an envelope.
C17_PlainResponseIffNoPublicKey ==
  flight.code = 200 =>
    /\ ~flight.response.encrypted <=> flight.publicKey = NoKey
    /\ flight.publicKey # NoKey =>
         {"encryptedData", "iv", "authTag", "encryptedKey", "algorithm"}
           \subseteq DOMAIN flight.response.data

\* C20: when the bank fails to decrypt a stored field inside partnerDataRequest
\* the request is not answered with success: no disclosure goes out with a
\* substitute value in that field's place.
C20_DecryptFailureIsReported ==
  flight.code = 200 => decryptFailures(flight.responseData) = {}

\* C21: revokeConsent changes a consent only when the actor is an admin or the
\* customer who owns the consent; for any other authenticated actor it answers
\* 403 "You do not have permission to revoke this consent" and the stored
\* consents are unchanged.
C21_RevokeOnlyByAdminOrOwner ==
  \A user \in Users, cid \in ConsentIdInputs :
    LET r == revokeConsent(user, cid)
        permitted == \/ user.role = "admin"
                     \/ (user.role = "customer"
                         /\ user.customerId = consents[cid].customerId)
    IN
    /\ (Consent_exists(cid) /\ ~permitted) =>
         /\ r.code = 403
         /\ r.message = "You do not have permission to revoke this consent"
         /\ r.consents = consents
    /\ r.consents # consents => (Consent_exists(cid) /\ permitted)
    /\ (Consent_exists(cid) /\ permitted) =>
         /\ r.code = 200
         /\ r.consents = [consents EXCEPT ![cid].status = "revoked"]

\* a stored active consent, a customer who does not own it and is refused, and
\* its owner, whose request revokes it
C21_Witness ==
  \E cid \in DOMAIN consents, other \in Users, owner \in Users :
    /\ consents[cid].status = "active"
    /\ other.role = "customer" /\ other.customerId # consents[cid].customerId
    /\ revokeConsent(other, cid).code = 403
    /\ owner.role = "customer" /\ owner.customerId = consents[cid].customerId
    /\ revokeConsent(owner, cid).consents[cid].status = "revoked"

\* C22: only an admin can register a partner, update a partner record or
\* replace a partner's public key: such a request of an authenticated user who
\* is not an admin is answered 403 and leaves every partner record unchanged.
C22_PartnerManagementAdminOnly ==
  \A user \in Users, pid \in ManagedPartners :
    user.role # "admin" =>
      /\ \A rc \in RegisterContracts :
           LET r == registerPartner(user, pid, rc, RegisterKey(pid), RegisterCallback(pid))
           IN ~partners[pid].exists => (r.code = 403 /\ r.partners = partners)
      /\ \A st \in PartnerStatusUpdates, rc \in UpdateContracts :
           LET r == updatePartner(user, pid, st, rc)
           IN r.code = 403 /\ r.partners = partners
      /\ \A publicKey \in BOOLEAN :
           LET r == updatePartnerKey(user, pid, publicKey)
           IN r.code = 403 /\ r.partners = partners

\* C23: updateConsent modifies a consent only when the actor is an admin or
\* the customer who owns it; an update request of any other authenticated actor
\* is answered with the permission error and leaves the stored consent
\* (allowedDataFields, purpose, status, consentDuration, expiresAt) unchanged.
C23_UpdateOnlyByAdminOrOwner ==
  \A user \in Users, cid \in ConsentIdInputs, body \in UpdateBodies :
    LET r == updateConsent(user, cid, body)
        permitted == \/ user.role = "admin"
                     \/ (user.role = "customer"
                         /\ user.customerId = consents[cid].customerId)
    IN
    /\ (Consent_exists(cid) /\ ~permitted) => r.code \in {400, 403, 500}
    /\ r.consents # consents => (Consent_exists(cid) /\ permitted)

\* C24: approvePartnerContract with approve = true on a partner that has a
\* requestedContract sets approvedContract, makes contractData a copy of the
\* requestedContract's allowedDataFields, purpose, retentionPeriod, legalBasis
\* and contractText under a fresh contractId that differs from every earlier
\* contractId, records contractApprovedAt and contractApprovedBy, and changes
\* the status to active exactly when it was pending.
C24_ApproveCopiesRequestedContract ==
  \A pid \in PartnerIds :
    LET p0 == partners[pid]
        r == approvePartnerContract(Admin, pid, TRUE)
        p1 == r.partners[pid]
        earlier == {partners[q].contractData.contractId :
                      q \in {q \in PartnerIds : /\ partners[q].exists
                                                 /\ partners[q].contractData.present}}
                   \cup {consents[c].contractId :
                           c \in {c \in DOMAIN consents : Consent_exists(c)}}
    IN
    p0.exists =>
      /\ r.code = 200
      /\ p1.approvedContract = TRUE
      /\ p1.contractData.present
      /\ p1.contractData.allowedDataFields = p0.requestedContract.allowedDataFields
      /\ p1.contractData.purpose = p0.requestedContract.purpose
      /\ p1.contractData.retentionPeriod = p0.requestedContract.retentionPeriod
      /\ p1.contractData.legalBasis = p0.requestedContract.legalBasis
      /\ p1.contractData.contractText = p0.requestedContract.contractText
      /\ p1.contractData.contractId \notin earlier
      /\ p1.contractApprovedAt = Some(now)
      /\ p1.contractApprovedBy = Some(Admin)
      /\ p1.status = (IF p0.status = "pending" THEN "active" ELSE p0.status)
      /\ p1.requestedContract = p0.requestedContract
      /\ \A q \in PartnerIds \ {pid} : r.partners[q] = partners[q]

\* a suspended partner whose second contract was approved after time passed
C24_Witness ==
  /\ partners["p1"].exists
  /\ partners["p1"].approvedContract
  /\ partners["p1"].contractData.present
  /\ partners["p1"].contractData.contractId = 2
  /\ partners["p1"].contractData.purpose = "marketing"
  /\ partners["p1"].contractApprovedAt = Some(MIN_CONSENT_DURATION_MS + 1)
  /\ partners["p1"].contractApprovedBy = Some(Admin)
  /\ partners["p1"].status = "suspended"

\* C25: in every successful disclosure the steps occur in the order
\* authorization checks, decryption of the stored fields, re-encryption for the
\* partner, recording of the data_request audit event, response: the audit
\* event is recorded after decryption and re-encryption and before the response.
C25_AuditAfterReencryption ==
  \A partnerId \in PartnerIdInputs, tokenOk \in BOOLEAN, consentId \in ConsentIdInputs,
     requestedFields \in RequestedFieldLists, signature \in Signatures :
    LET r == partnerDataRequest(partnerId, tokenOk, consentId, requestedFields, signature)
        at(step) == {i \in DOMAIN r.steps : r.steps[i] = step}
        before(a, b) == \A i \in at(a), j \in at(b) : i < j
    IN
    r.code = 200 =>
      /\ at("logEvent") # {}
      /\ before("Consent.findOne", "decryptField")
      /\ before("decryptField", "encrypt")
      /\ before("decryptField", "logEvent")
      /\ before("encrypt", "logEvent")
      /\ before("logEvent", "push")
      /\ before("logEvent", "respond")

\* C26: verifyLogIntegrity verifies the signature of every entry of the range
\* against that entry's eventHash, the first entry included: an entry with an
\* invalid signature at any position of the range makes the result
\* valid = false, and an empty or single-entry range whose signatures are valid
\* is valid.
C26_EverySignatureVerified ==
  verdict.ran =>
    LET logs == AuditLog_findRange(verdict.startId, verdict.endId)
        unsigned == {i \in DOMAIN logs :
                       ~verifySignature(logs[i].eventHash, logs[i].digitalSignature)}
    IN
    /\ unsigned # {} => ~verdict.valid
    /\ (Len(logs) <= 1 /\ unsigned = {}) => verdict.valid

\* C27: once revokeConsent has persisted status = revoked, no partnerDataRequest
\* for that consent sends a success response carrying customer data, whether
\* it started after the revocation or was in flight when it happened: a
\* response sent from a state in which the consent is revoked is not a 200.
C27_NoSuccessAfterRevocation ==
  [][(/\ consents[1].status = "revoked"
      /\ flight' # flight
      /\ flight'.responded)
     => flight'.code # 200]_vars

C29_RefusedUntilReapproved ==
  /\ [](\A pid \in PartnerIds :
          partners[pid].exists =>
            /\ LET r == approvePartnerContract(Admin, pid, FALSE) IN
               /\ r.code = 200
               /\ r.partners[pid].approvedContract = FALSE
               /\ r.partners[pid].contractData = NoContract
            /\ \A user \in Users, st \in PartnerStatusUpdates, rc \in UpdateContracts :
                 LET u == updatePartner(user, pid, st, rc) IN
                 (rc.given /\ u.code = 200) =>
                   /\ u.partners[pid].requestedContract = rc.v
                   /\ u.partners[pid].approvedContract = FALSE
                   /\ u.partners[pid].contractData = NoContract
            /\ ~partners[pid].approvedContract =>
                 \A tokenOk \in BOOLEAN, consentId \in ConsentIdInputs,
                    requestedFields \in RequestedFieldLists, signature \in Signatures :
                   LET d == partnerDataRequest(pid, tokenOk, consentId,
                                               requestedFields, signature)
                   IN /\ d.code \in {401, 403}
                      /\ tokenOk => d.code = 403
                      /\ d.consents = consents
                      /\ d.dataRequests = dataRequests)
  /\ [][\A pid \in PartnerIds :
          (/\ partners[pid].exists
           /\ ~partners[pid].approvedContract
           /\ partners'[pid].approvedContract)
          => partners' = approvePartnerContract(Admin, pid, TRUE).partners]_vars

\* p1 was approved and promoted to active, customer c1 consented, then the
\* contract was rejected or replaced: the consent is still active and unexpired
C29_Witness ==
  /\ partners["p1"].exists
  /\ partners["p1"].status = "active"
  /\ ~partners["p1"].approvedContract
  /\ partners["p1"].contractData = NoContract
  /\ Len(consents) >= 1
  /\ consents[1].partnerId = "p1"
  /\ Consent_findActive(1, "p1")
  /\ ~isExpired(consents[1])

\* C30: in every reachable state each consent's allowedDataFields is a subset
\* of the allowedDataFields of the approved contract, identified by the
\* consent's contractId, it was created from: of the partner's contractData
\* while that still carries the contractId, and in any case of a contract that
\* was ever submitted for approval.
C30_ConsentFieldsWithinContract ==
  \A cid \in DOMAIN consents :
    Consent_exists(cid) =>
      LET c == consents[cid]
          partner == Partner_findOne(c.partnerId)
      IN
      /\ (/\ partner.exists
          /\ partner.contractData.present
          /\ partner.contractData.contractId = c.contractId)
         => c.allowedDataFields \subseteq partner.contractData.allowedDataFields
      /\ \E contract \in Contracts :
           c.allowedDataFields \subseteq contract.allowedDataFields
====
